---- MODULE Spec2Model ----
(***************************************************************************)
(* AgileMind: the handoff / tool-call control loop of Runner.run           *)
(* (agilemind/execution/runner.py) driving the agents wired in             *)
(* agilemind/waterfall.py.                                                 *)
(*                                                                         *)
(* One run of Runner.run is a small state machine over its locals          *)
(* (current_agent, current_input, iterations, execution_trace).  Every     *)
(* loop iteration makes one call of Agent.process, the external            *)
(* collaborator, whose answer is chosen nondeterministically.              *)
(***************************************************************************)
EXTENDS Integers, Sequences, FiniteSets, TLC

(* ----------------------------- bounds ---------------------------------- *)

\* largest max_iterations argument explored by Spec and FairSpec
MaxIter == 3

\* largest max_iterations argument explored by DetSpec (two calls)
DetMaxIter == 2

(* ----------------------------- agents ---------------------------------- *)

\* Python's None (absent handoff, unset local)
None == "None"

\* the four Agent objects built at module load
Agents == {"demand_analyst", "architect", "programmer", "quality_assurance"}

\* Agent.name: the first constructor argument of each Agent object
name(a) ==
    CASE a = "demand_analyst"    -> "demand_analyst"
      [] a = "architect"         -> "architect"
      [] a = "programmer"        -> "programmer"
      [] a = "quality_assurance" -> "quality_assurance"

\* mutant: the analyst is wired back to quality assurance, closing the chain
handoffsCyclic(a) ==
    CASE a = "demand_analyst"    -> {"quality_assurance"}
      [] a = "architect"         -> {"demand_analyst"}
      [] a = "programmer"        -> {"architect"}
      [] a = "quality_assurance" -> {"programmer"}

\* Agent.handoffs: the handoffs argument each Agent object is built with
handoffs(a) ==
    CASE a = "demand_analyst"    -> {}
      [] a = "architect"         -> {"demand_analyst"}
      [] a = "programmer"        -> {"architect"}
      [] a = "quality_assurance" -> {"programmer"}

\* the max_iterations argument dev passes to run
DevMaxIterations == 5

(* ------------------------ values and strings --------------------------- *)

\* a tool result value: a Python str or a Python int
StrVal(s) == [kind |-> "str", s |-> s, n |-> 0]
IntVal(n) == [kind |-> "int", s |-> "", n |-> n]

Digit(d) ==
    CASE d = 0 -> "0" [] d = 1 -> "1" [] d = 2 -> "2" [] d = 3 -> "3"
      [] d = 4 -> "4" [] d = 5 -> "5" [] d = 6 -> "6" [] d = 7 -> "7"
      [] d = 8 -> "8" [] d = 9 -> "9"

RECURSIVE IntToStr(_)
\* str(n) of a non-negative int
IntToStr(n) == IF n < 10 THEN Digit(n) ELSE IntToStr(n \div 10) \o Digit(n % 10)

\* what an f-string placeholder {v} renders: a str as itself, an int in decimal
Format(v) == IF v.kind = "str" THEN v.s ELSE IntToStr(v.n)

RECURSIVE Join(_, _)
RECURSIVE JoinTrailingSep(_, _)

\* mutant: the separator also follows the last part
JoinTrailingSep(sep, parts) ==
    IF parts = <<>> THEN ""
    ELSE parts[1] \o sep \o JoinTrailingSep(sep, Tail(parts))

\* sep.join(parts)
Join(sep, parts) ==
    IF parts = <<>> THEN ""
    ELSE IF Len(parts) = 1 THEN parts[1]
    ELSE parts[1] \o sep \o Join(sep, Tail(parts))

(* ------------------------- the collaborator ---------------------------- *)

ToolCall(tool, result) == [tool |-> tool, result |-> result]

\* the tool_calls sequences a turn may report
ToolCallLists ==
    { <<>>,
      << ToolCall("search", StrVal("3 hits")), ToolCall("lint", StrVal("ok")) >>,
      << ToolCall("count", IntVal(12)) >> }

\* the content strings a turn may carry
Contents == {"done", "all tests pass"}

\* every TurnResult Agent.process may return: any handoff with any tool_calls,
\* and a final turn with either content
TurnResults ==
    [content : {"done"}, handoff : Agents \cup {None}, tool_calls : ToolCallLists]
    \cup [content : Contents, handoff : {None}, tool_calls : {<<>>}]

\* the initial inputs a caller may pass
Inputs == {"build a todo app", ""}

\* placeholder output of an invocation that raised
NoOutput == [content |-> "", handoff |-> None, tool_calls |-> <<>>]

(* ------------------------------ state ---------------------------------- *)

Runs == {1, 2}

VARIABLES
    pc,               \* per call: "off", "call", "loop", "success", "exhausted", "failed"
    starting_agent,   \* argument of the call
    input,            \* argument of the call
    max_iterations,   \* argument of the call
    current_agent,    \* local
    current_input,    \* local
    iterations,       \* local
    execution_trace,  \* local list of {"agent", "input", "output"}
    ret,              \* <<>> or <<the returned dict>>
    invocations,      \* history: every call of process made by this run
    deterministic,    \* whether process is a function of (agent, input)
    memo              \* answers a deterministic process has already given

vars == << pc, starting_agent, input, max_iterations, current_agent,
           current_input, iterations, execution_trace, ret, invocations,
           deterministic, memo >>

args == << starting_agent, input, max_iterations, deterministic >>

(* --------------------------- pure helpers ------------------------------ *)

\* truth value of result["handoff"]: None is falsy, an Agent object is truthy
HasHandoff(result) == result.handoff # None

\* tool_results as built by the for loop
ToolResults(tool_calls) ==
    [i \in 1..Len(tool_calls) |->
        "Tool " \o tool_calls[i].tool \o " returned: " \o Format(tool_calls[i].result)]

\* mutant: every tool result is closed with a full stop before the suffix
FollowUpInputStops(tool_results) ==
    "The following tools were used: " \o Join(". ", tool_results) \o ".. Please continue."

\* the follow-up input synthesized from tool_results
FollowUpInput(tool_results) ==
    "The following tools were used: " \o Join(" ", tool_results) \o ". Please continue."

\* the turn needs a follow-up tool round: tool_calls and tool_results are non-empty
ToolFollowUp(result) ==
    result.tool_calls # <<>> /\ ToolResults(result.tool_calls) # <<>>

\* mutant: the success return is only taken when the turn has content
ContinuesUnlessDone(result) ==
    HasHandoff(result) \/ ToolFollowUp(result) \/ result.content # "done"

\* the loop body reaches a `continue` rather than the success return
Continues(result) == HasHandoff(result) \/ ToolFollowUp(result)

\* mutant: a handoff is dropped when the turn also reports tool calls
NextAgentUnlessTools(agent, result) ==
    IF HasHandoff(result) /\ result.tool_calls = <<>> THEN result.handoff ELSE agent

\* mutant: a handoff outside the declared handoffs of the agent is not followed
NextAgentDeclaredOnly(agent, result) ==
    IF HasHandoff(result) /\ result.handoff \in handoffs(agent)
    THEN result.handoff ELSE agent

\* current_agent after the turn: the handoff is tested first
NextAgent(agent, result) == IF HasHandoff(result) THEN result.handoff ELSE agent

\* mutant: the tool summary is synthesized before the handoff is tested
NextInputToolsFirst(inp, result) ==
    IF ToolFollowUp(result) THEN FollowUpInput(ToolResults(result.tool_calls))
    ELSE inp

\* mutant: a handoff passes the handing-off agent's content on as input
NextInputHandoffContent(inp, result) ==
    IF HasHandoff(result) THEN result.content
    ELSE IF ToolFollowUp(result) THEN FollowUpInput(ToolResults(result.tool_calls))
    ELSE inp

\* current_input after the turn: a handoff keeps it, a tool round replaces it
NextInput(inp, result) ==
    IF HasHandoff(result) THEN inp
    ELSE IF ToolFollowUp(result) THEN FollowUpInput(ToolResults(result.tool_calls))
    ELSE inp

ExhaustedResponse == "Maximum number of agent iterations reached without resolution."

RunResult(agent, response, trace) ==
    [agent |-> name(agent), response |-> response, execution_trace |-> trace]

\* mutant: the entry is built after the handoff has replaced current_agent
TraceEntryAfterSwitch(agent, inp, result) ==
    [agent |-> name(IF result.handoff # None THEN result.handoff ELSE agent),
     input |-> inp, output |-> result]

TraceEntry(agent, inp, result) ==
    [agent |-> name(agent), input |-> inp, output |-> result]

\* mutant: the body runs once before the cap is looked at (do-while)
LoopGuardDoWhile(r) == iterations[r] = 0 \/ iterations[r] < max_iterations[r]

\* mutant: the cap compared with <= instead of <
LoopGuardOffByOne(r) == iterations[r] <= max_iterations[r]

\* mutant: the iteration count is one counter shared by all calls
LoopGuardSharedCount(r) == iterations[1] + iterations[2] < max_iterations[r]

\* mutant: the loop stops one iteration short of the cap
LoopGuardStopsEarly(r) == iterations[r] + 1 < max_iterations[r]

\* the loop condition
LoopGuard(r) == iterations[r] < max_iterations[r]

\* a process answer is admissible: a deterministic process repeats itself
Answers(agent, inp, raised, output) ==
    deterministic =>
        \A m \in memo : (m.agent = agent /\ m.input = inp) =>
                            (m.raised = raised /\ m.output = output)

Remember(agent, inp, raised, output) ==
    IF deterministic
    THEN memo \cup {[agent |-> agent, input |-> inp, raised |-> raised, output |-> output]}
    ELSE memo

Invocation(agent, inp, raised, output) ==
    [agent |-> agent, input |-> inp, raised |-> raised, output |-> output]

(* ------------------------------ actions -------------------------------- *)

\* mutant: the trace list is shared by all calls instead of created per call
BeginSharedTrace(r) ==
    /\ pc[r] = "call"
    /\ current_agent' = [current_agent EXCEPT ![r] = starting_agent[r]]
    /\ current_input' = [current_input EXCEPT ![r] = input[r]]
    /\ iterations' = [iterations EXCEPT ![r] = 0]
    /\ execution_trace' = [execution_trace EXCEPT ![r] =
          IF \E q \in Runs : q # r /\ execution_trace[q] # <<>>
          THEN execution_trace[CHOOSE q \in Runs : q # r /\ execution_trace[q] # <<>>]
          ELSE <<>>]
    /\ pc' = [pc EXCEPT ![r] = "loop"]
    /\ UNCHANGED << args, ret, invocations, memo >>

\* entry of run: the four local initialisations
Begin(r) ==
    /\ pc[r] = "call"
    /\ current_agent' = [current_agent EXCEPT ![r] = starting_agent[r]]
    /\ current_input' = [current_input EXCEPT ![r] = input[r]]
    /\ iterations' = [iterations EXCEPT ![r] = 0]
    /\ execution_trace' = [execution_trace EXCEPT ![r] = <<>>]
    /\ pc' = [pc EXCEPT ![r] = "loop"]
    /\ UNCHANGED << args, ret, invocations, memo >>

\* mutant: the new entry is inserted at the head of the trace
AfterTurnPrepend(r, result) ==
    LET trace == << TraceEntry(current_agent[r], current_input[r], result) >>
                 \o execution_trace[r]
    IN  /\ execution_trace' = [execution_trace EXCEPT ![r] = trace]
        /\ current_agent' = [current_agent EXCEPT ![r] = NextAgent(current_agent[r], result)]
        /\ current_input' = [current_input EXCEPT ![r] = NextInput(current_input[r], result)]
        /\ IF Continues(result)
           THEN UNCHANGED << pc, ret >>
           ELSE /\ ret' = [ret EXCEPT ![r] =
                              << RunResult(current_agent[r], result.content, trace) >>]
                /\ pc' = [pc EXCEPT ![r] = "success"]

\* what the loop body does once process has returned `result`
AfterTurn(r, result) ==
    LET trace == Append(execution_trace[r],
                        TraceEntry(current_agent[r], current_input[r], result))
    IN  /\ execution_trace' = [execution_trace EXCEPT ![r] = trace]
        /\ current_agent' = [current_agent EXCEPT ![r] = NextAgent(current_agent[r], result)]
        /\ current_input' = [current_input EXCEPT ![r] = NextInput(current_input[r], result)]
        /\ IF Continues(result)
           THEN UNCHANGED << pc, ret >>
           ELSE /\ ret' = [ret EXCEPT ![r] =
                              << RunResult(current_agent[r], result.content, trace) >>]
                /\ pc' = [pc EXCEPT ![r] = "success"]

\* one loop iteration in which process returns a TurnResult
Step(r) ==
    /\ pc[r] = "loop"
    /\ LoopGuard(r)
    /\ \E result \in TurnResults :
          /\ Answers(current_agent[r], current_input[r], FALSE, result)
          /\ iterations' = [iterations EXCEPT ![r] = iterations[r] + 1]
          /\ invocations' = [invocations EXCEPT ![r] =
                Append(@, Invocation(current_agent[r], current_input[r], FALSE, result))]
          /\ memo' = Remember(current_agent[r], current_input[r], FALSE, result)
          /\ AfterTurn(r, result)
    /\ UNCHANGED args

\* mutant: the exception is caught and the iteration is tried again
ProcessRaisesRetried(r) ==
    /\ pc[r] = "loop"
    /\ LoopGuard(r)
    /\ Answers(current_agent[r], current_input[r], TRUE, NoOutput)
    /\ iterations' = [iterations EXCEPT ![r] = iterations[r] + 1]
    /\ invocations' = [invocations EXCEPT ![r] =
          Append(@, Invocation(current_agent[r], current_input[r], TRUE, NoOutput))]
    /\ memo' = Remember(current_agent[r], current_input[r], TRUE, NoOutput)
    /\ UNCHANGED << args, pc, current_agent, current_input, execution_trace, ret >>

\* one loop iteration in which process raises: the exception leaves run
ProcessRaises(r) ==
    /\ pc[r] = "loop"
    /\ LoopGuard(r)
    /\ Answers(current_agent[r], current_input[r], TRUE, NoOutput)
    /\ iterations' = [iterations EXCEPT ![r] = iterations[r] + 1]
    /\ invocations' = [invocations EXCEPT ![r] =
          Append(@, Invocation(current_agent[r], current_input[r], TRUE, NoOutput))]
    /\ memo' = Remember(current_agent[r], current_input[r], TRUE, NoOutput)
    /\ pc' = [pc EXCEPT ![r] = "failed"]
    /\ UNCHANGED << args, current_agent, current_input, execution_trace, ret >>

\* mutant: the exhaustion result names the agent that ran last
ExhaustLastRan(r) ==
    /\ pc[r] = "loop"
    /\ ~LoopGuard(r)
    /\ ret' = [ret EXCEPT ![r] =
                  << [agent |-> IF execution_trace[r] = <<>>
                                THEN name(current_agent[r])
                                ELSE execution_trace[r][Len(execution_trace[r])].agent,
                      response |-> ExhaustedResponse,
                      execution_trace |-> execution_trace[r]] >>]
    /\ pc' = [pc EXCEPT ![r] = "exhausted"]
    /\ UNCHANGED << args, current_agent, current_input, iterations,
                    execution_trace, invocations, memo >>

\* the loop condition is false: the exhaustion return
Exhaust(r) ==
    /\ pc[r] = "loop"
    /\ ~LoopGuard(r)
    /\ ret' = [ret EXCEPT ![r] =
                  << RunResult(current_agent[r], ExhaustedResponse, execution_trace[r]) >>]
    /\ pc' = [pc EXCEPT ![r] = "exhausted"]
    /\ UNCHANGED << args, current_agent, current_input, iterations,
                    execution_trace, invocations, memo >>

(* --------------------------- specifications ---------------------------- *)

Ended == {"success", "exhausted", "failed"}

\* the state at the call: arguments chosen, locals not yet created
TypeShape ==
    /\ pc \in [Runs -> {"off", "call"}]
    /\ starting_agent \in [Runs -> Agents]
    /\ input \in [Runs -> Inputs]
    /\ current_agent \in [Runs -> {None}]
    /\ current_input \in [Runs -> {""}]
    /\ iterations \in [Runs -> {0}]
    /\ execution_trace \in [Runs -> {<<>>}]
    /\ ret \in [Runs -> {<<>>}]
    /\ invocations \in [Runs -> {<<>>}]
    /\ memo = {}

\* one call of run with an arbitrary collaborator
Init ==
    /\ TypeShape
    /\ max_iterations \in [Runs -> 0..MaxIter]
    /\ pc[1] = "call" /\ pc[2] = "off"
    /\ starting_agent[2] = starting_agent[1]
    /\ input[2] = input[1]
    /\ max_iterations[2] = max_iterations[1]
    /\ deterministic = FALSE

Next ==
    \E r \in Runs : Begin(r) \/ Step(r) \/ ProcessRaises(r) \/ Exhaust(r)

Spec == Init /\ [][Next]_vars

\* process returns or raises; run is never suspended for ever
FairSpec == Spec /\ WF_vars(Next)

\* two calls of run, one after the other, with a deterministic collaborator
DetInit ==
    /\ TypeShape
    /\ max_iterations \in [Runs -> 0..DetMaxIter]
    /\ pc[1] = "call" /\ pc[2] = "call"
    /\ starting_agent[2] = starting_agent[1]
    /\ input[2] = input[1]
    /\ deterministic = TRUE

DetNext ==
    \E r \in Runs :
        \/ Begin(r) /\ (\A q \in Runs : q < r => pc[q] \in Ended)
        \/ Step(r)
        \/ ProcessRaises(r)
        \/ Exhaust(r)

DetSpec == DetInit /\ [][DetNext]_vars

(* -------------------------- concurrent calls --------------------------- *)

\* largest max_iterations argument explored by ConcSpec (two interleaved calls)
ConcMaxIter == 2

\* the TurnResults process returns while two calls are interleaved
ConcTurnResults ==
    { t \in TurnResults :
        /\ t.handoff \in {None, "programmer"}
        /\ t.tool_calls \in {<<>>, << ToolCall("count", IntVal(12)) >>} }

\* the TurnResult returned by the process invocation the step has just made
LastAnswered(r) == invocations[r][Len(invocations[r])].output

\* two calls of run over the same agents, their steps interleaved at will
ConcInit ==
    /\ TypeShape
    /\ max_iterations \in [Runs -> 0..ConcMaxIter]
    /\ pc[1] = "call" /\ pc[2] = "call"
    /\ input[1] = "build a todo app" /\ input[2] = ""
    /\ deterministic = FALSE

ConcNext ==
    \E r \in Runs :
        \/ Begin(r)
        \/ Step(r) /\ LastAnswered(r)' \in ConcTurnResults
        \/ ProcessRaises(r)
        \/ Exhaust(r)

ConcSpec == ConcInit /\ [][ConcNext]_vars

(* ------------------------------ waterfall ------------------------------ *)

\* the call made by dev, then a call with the same arguments from any agent
\* of the chain, with a collaborator that keeps to the declared handoffs
WaterfallInit ==
    /\ TypeShape
    /\ max_iterations = [r \in Runs |-> DevMaxIterations]
    /\ pc[1] = "call" /\ pc[2] = "call"
    /\ starting_agent[1] = "demand_analyst"
    /\ input[1] = "build a todo app" /\ input[2] = input[1]
    /\ deterministic = FALSE

\* the handoff of the turn just returned is one its agent declares
DeclaredHandoff(r) ==
    LET v == invocations[r][Len(invocations[r])]
    IN  v.output.handoff \in handoffs(v.agent) \cup {None}

WaterfallNext ==
    \E r \in Runs :
        \/ Begin(r) /\ (\A q \in Runs : q < r => pc[q] \in Ended)
        \/ Step(r) /\ DeclaredHandoff(r)'
        \/ ProcessRaises(r)
        \/ Exhaust(r)

WaterfallSpec == WaterfallInit /\ [][WaterfallNext]_vars

(* ------------------------------ history -------------------------------- *)

\* the invocations of run r that returned a TurnResult
Returned(r) == SelectSeq(invocations[r], LAMBDA v : ~v.raised)

\* the i-th invocation of run r returned a TurnResult
Turn(r, i) == ~invocations[r][i].raised

Last(seq) == seq[Len(seq)]

(* ------------------------------- claims -------------------------------- *)

\* C1: run invokes process at most max_iterations times, whatever the
\* collaborator answers (cyclic handoffs, tool calls on every turn), and the
\* call always ends: it returns a RunResult, or a failed process call (C9)
\* has ended it.
C1_Termination ==
    /\ [](\A r \in Runs : Len(invocations[r]) <= max_iterations[r])
    /\ <>(\A r \in Runs :
            \/ pc[r] = "off"
            \/ pc[r] \in {"success", "exhausted"} /\ Len(ret[r]) = 1
            \/ pc[r] = "failed")

\* C1 witness: a call with max_iterations 3 ran round the handoff cycle
\* A -> B -> A and was stopped by the cap
C1_Witness ==
    \E r \in Runs :
        /\ pc[r] = "exhausted"
        /\ max_iterations[r] = 3
        /\ Len(invocations[r]) = 3
        /\ invocations[r][1].agent # invocations[r][2].agent
        /\ invocations[r][3].agent = invocations[r][1].agent
        /\ invocations[r][3].output.handoff = invocations[r][2].agent

\* C2: at every moment the execution trace has one entry per process
\* invocation that has returned, in order, holding the name of the agent
\* invoked, the input passed and the TurnResult returned; the returned
\* RunResult carries that same trace.
C2_TraceComplete ==
    \A r \in Runs :
        /\ Len(execution_trace[r]) = Len(Returned(r))
        /\ \A i \in 1..Len(execution_trace[r]) :
              /\ execution_trace[r][i].agent = name(Returned(r)[i].agent)
              /\ execution_trace[r][i].input = Returned(r)[i].input
              /\ execution_trace[r][i].output = Returned(r)[i].output
        /\ ret[r] # <<>> => ret[r][1].execution_trace = execution_trace[r]

\* C2 witness: a returned trace of three entries, a tool round among them
C2_Witness ==
    \E r \in Runs :
        /\ pc[r] = "success"
        /\ Len(ret[r][1].execution_trace) = 3
        /\ ret[r][1].execution_trace[1].output.handoff # None
        /\ ret[r][1].execution_trace[2].output.tool_calls # <<>>
        /\ ret[r][1].execution_trace[2].input # ret[r][1].execution_trace[3].input

\* C3: after a turn that carries a handoff, with or without tool calls, the
\* next process invocation is on the handoff agent with the input the
\* handing-off agent was given; the tool results are not folded in: every
\* later input is that same input or the summary of a later tool round.
C3_HandoffPrecedence ==
    \A r \in Runs : \A i \in 1..Len(invocations[r]) :
        LET v == invocations[r][i] IN
        (Turn(r, i) /\ v.output.handoff # None) =>
            /\ i < Len(invocations[r]) =>
                  /\ invocations[r][i + 1].agent = v.output.handoff
                  /\ invocations[r][i + 1].input = v.input
            /\ i = Len(invocations[r]) =>
                  /\ pc[r] \in {"loop", "exhausted"}
                  /\ current_agent[r] = v.output.handoff
                  /\ current_input[r] = v.input
            /\ \A j \in (i + 1)..Len(invocations[r]) :
                  \/ invocations[r][j].input = v.input
                  \/ \E k \in (i + 1)..(j - 1) :
                        /\ invocations[r][k].output.handoff = None
                        /\ invocations[r][k].output.tool_calls # <<>>
                        /\ invocations[r][j].input =
                              FollowUpInput(ToolResults(invocations[r][k].output.tool_calls))

\* C3 witness: a turn with both a handoff to another agent and tool calls was
\* followed by a process invocation
C3_Witness ==
    \E r \in Runs : \E i \in 1..Len(invocations[r]) :
        /\ i < Len(invocations[r])
        /\ invocations[r][i].output.handoff \in Agents \ {invocations[r][i].agent}
        /\ invocations[r][i].output.tool_calls # <<>>

\* the form `Tool <tool> returned: <result>` of one tool call
C4_Form(call) == "Tool " \o call.tool \o " returned: " \o Format(call.result)

RECURSIVE C4_Spaced(_)
\* the forms of the calls, in order, one space between neighbours
C4_Spaced(calls) ==
    IF Len(calls) = 0 THEN ""
    ELSE IF Len(calls) = 1 THEN C4_Form(calls[1])
    ELSE C4_Spaced(SubSeq(calls, 1, Len(calls) - 1)) \o " " \o C4_Form(calls[Len(calls)])

C4_Summary(calls) ==
    "The following tools were used: " \o C4_Spaced(calls) \o ". Please continue."

\* C4: after a turn with no handoff and a non-empty tool_calls, the next
\* process invocation is on the same agent and its input is the fixed prefix,
\* the forms `Tool <tool> returned: <result>` of all calls in order joined by
\* one space, and the fixed suffix.
C4_ToolFollowUp ==
    \A r \in Runs : \A i \in 1..Len(invocations[r]) :
        LET v == invocations[r][i] IN
        (Turn(r, i) /\ v.output.handoff = None /\ v.output.tool_calls # <<>>) =>
            /\ i < Len(invocations[r]) =>
                  /\ invocations[r][i + 1].agent = v.agent
                  /\ invocations[r][i + 1].input = C4_Summary(v.output.tool_calls)
            /\ i = Len(invocations[r]) =>
                  /\ pc[r] \in {"loop", "exhausted"}
                  /\ current_agent[r] = v.agent
                  /\ current_input[r] = C4_Summary(v.output.tool_calls)

\* C4 witness: a two-call tool round was followed by a process invocation
C4_Witness ==
    \E r \in Runs : \E i \in 1..Len(invocations[r]) :
        /\ i < Len(invocations[r])
        /\ invocations[r][i].output.handoff = None
        /\ Len(invocations[r][i].output.tool_calls) = 2

\* the tool_calls of the synthesis example
C5_ExampleCalls ==
    << ToolCall("search", StrVal("3 hits")), ToolCall("lint", StrVal("ok")) >>

\* the input that follows a turn without handoff reporting the example calls
\* is `expected`
C5_NextInputIs(expected) ==
    \A r \in Runs : \A i \in 1..Len(invocations[r]) :
        LET v == invocations[r][i] IN
        (Turn(r, i) /\ v.output.handoff = None /\ v.output.tool_calls = C5_ExampleCalls) =>
            /\ i < Len(invocations[r]) => invocations[r][i + 1].input = expected
            /\ i = Len(invocations[r]) => current_input[r] = expected

\* C5 as stated: the input after the example turn is the string with a full
\* stop after each tool result
C5_AsStated ==
    C5_NextInputIs("The following tools were used: Tool search returned: 3 hits. Tool lint returned: ok.. Please continue.")

\* C5: after a turn with no handoff and tool_calls = [search: "3 hits",
\* lint: "ok"], the next input is exactly "The following tools were used: Tool
\* search returned: 3 hits Tool lint returned: ok. Please continue.": the two
\* forms are separated by one space and the only full stop is the suffix's.
C5_ExampleInput ==
    C5_NextInputIs("The following tools were used: Tool search returned: 3 hits Tool lint returned: ok. Please continue.")

\* C5 witness: the example turn was followed by a process invocation
C5_Witness ==
    \E r \in Runs : \E i \in 1..Len(invocations[r]) :
        /\ i < Len(invocations[r])
        /\ Turn(r, i)
        /\ invocations[r][i].output.handoff = None
        /\ invocations[r][i].output.tool_calls = C5_ExampleCalls

\* C6: a turn with no handoff and no tool calls is the last invocation of
\* its run: run has returned, with that turn's content as response and the
\* name of the agent that produced it as agent; when it is the first turn,
\* run returned after one iteration with a trace of length 1.
C6_SuccessPath ==
    \A r \in Runs : \A i \in 1..Len(invocations[r]) :
        LET v == invocations[r][i] IN
        (Turn(r, i) /\ v.output.handoff = None /\ v.output.tool_calls = <<>>) =>
            /\ i = Len(invocations[r])
            /\ pc[r] = "success"
            /\ Len(ret[r]) = 1
            /\ ret[r][1].response = v.output.content
            /\ ret[r][1].agent = name(v.agent)
            /\ i = 1 => (iterations[r] = 1 /\ Len(ret[r][1].execution_trace) = 1)

\* C6 witness: the starting agent's first turn is final with content "done"
C6_Witness ==
    \E r \in Runs :
        /\ pc[r] = "success"
        /\ Len(invocations[r]) = 1
        /\ invocations[r][1].agent = starting_agent[r]
        /\ invocations[r][1].output = [content |-> "done", handoff |-> None, tool_calls |-> <<>>]
        /\ ret[r][1].response = "done"

\* C7 as stated: an exhaustion result names the agent of the last trace entry
C7_AsStated ==
    \A r \in Runs :
        (pc[r] = "exhausted" /\ execution_trace[r] # <<>>) =>
            /\ ret[r][1].response = "Maximum number of agent iterations reached without resolution."
            /\ ret[r][1].agent = Last(execution_trace[r]).agent

\* C7: an exhaustion result has the fixed literal as response, and its agent
\* is the agent that was current when the loop stopped: the handoff target of
\* the last turn when that turn carried a handoff, otherwise the agent of the
\* last trace entry.
C7_ExhaustionLiteral ==
    \A r \in Runs :
        (pc[r] = "exhausted" /\ execution_trace[r] # <<>>) =>
            LET e == Last(execution_trace[r]) IN
            /\ ret[r][1].response = "Maximum number of agent iterations reached without resolution."
            /\ ret[r][1].agent = IF e.output.handoff # None
                                 THEN name(e.output.handoff)
                                 ELSE e.agent

\* C7 witness: max_iterations = 1 and the only turn hands off to another agent
C7_Witness ==
    \E r \in Runs :
        /\ pc[r] = "exhausted"
        /\ max_iterations[r] = 1
        /\ Len(execution_trace[r]) = 1
        /\ execution_trace[r][1].output.handoff \in Agents \ {starting_agent[r]}

\* C8: with max_iterations = 0 process is never invoked, and run returns the
\* exhaustion literal, the starting agent's name and an empty trace.
C8_ZeroIterations ==
    \A r \in Runs :
        max_iterations[r] = 0 =>
            /\ invocations[r] = <<>>
            /\ pc[r] \in {"off", "call", "loop", "exhausted"}
            /\ pc[r] = "exhausted" =>
                  ret[r] = << [agent |-> name(starting_agent[r]),
                               response |-> "Maximum number of agent iterations reached without resolution.",
                               execution_trace |-> <<>>] >>

\* C8 witness: a call with max_iterations = 0 has returned
C8_Witness ==
    \E r \in Runs : max_iterations[r] = 0 /\ pc[r] = "exhausted" /\ Len(ret[r]) = 1

\* C9: a process invocation that fails is the last invocation of its run (no
\* further invocation, no retry), the run has ended as failed, and no
\* RunResult has been returned.
C9_FailurePropagates ==
    \A r \in Runs :
        /\ \A i \in 1..Len(invocations[r]) :
              invocations[r][i].raised =>
                  /\ i = Len(invocations[r])
                  /\ pc[r] = "failed"
        /\ pc[r] = "failed" =>
              /\ ret[r] = <<>>
              /\ invocations[r] # <<>> /\ Last(invocations[r]).raised

\* C9 witness: a process invocation failed after two turns had been traced
C9_Witness ==
    \E r \in Runs :
        /\ pc[r] = "failed"
        /\ Len(invocations[r]) = 3
        /\ Len(execution_trace[r]) = 2

\* C10: with a deterministic process, two calls of run with the same starting
\* agent, input and max_iterations end the same way and return identical
\* RunResults: same agent, same response, equal traces.
C10_Determinism ==
    ( /\ deterministic
      /\ pc[1] \in Ended /\ pc[2] \in Ended
      /\ starting_agent[1] = starting_agent[2]
      /\ input[1] = input[2]
      /\ max_iterations[1] = max_iterations[2] ) =>
        /\ pc[1] = pc[2]
        /\ ret[1] = ret[2]
        /\ pc[1] # "failed" =>
              /\ ret[1][1].agent = ret[2][1].agent
              /\ ret[1][1].response = ret[2][1].response
              /\ Len(ret[1][1].execution_trace) = Len(ret[2][1].execution_trace)
              /\ \A i \in 1..Len(ret[1][1].execution_trace) :
                    ret[1][1].execution_trace[i] = ret[2][1].execution_trace[i]

\* C10 witness: two equal calls have both returned two-entry traces
C10_Witness ==
    /\ deterministic
    /\ pc[1] \in {"success", "exhausted"} /\ pc[2] \in {"success", "exhausted"}
    /\ max_iterations[1] = max_iterations[2]
    /\ Len(ret[1][1].execution_trace) = 2
    /\ Len(ret[2][1].execution_trace) = 2

RECURSIVE C11_Alone(_, _, _, _, _, _)
\* what a call on its own makes of the answers `answers`: how it ends, and
\* the RunResult it returns
C11_Alone(agent, inp, count, trace, answers, cap) ==
    IF ~(count < cap)
    THEN [pc |-> "exhausted",
          ret |-> << [agent |-> name(agent),
                      response |-> "Maximum number of agent iterations reached without resolution.",
                      execution_trace |-> trace] >>]
    ELSE IF answers = <<>>
    THEN [pc |-> "loop", ret |-> <<>>]
    ELSE IF Head(answers).raised
    THEN [pc |-> "failed", ret |-> <<>>]
    ELSE LET out == Head(answers).output
             grown == trace \o << [agent |-> name(agent), input |-> inp, output |-> out] >>
         IN  IF out.handoff # None
             THEN C11_Alone(out.handoff, inp, count + 1, grown, Tail(answers), cap)
             ELSE IF out.tool_calls # <<>>
             THEN C11_Alone(agent, C4_Summary(out.tool_calls), count + 1, grown,
                            Tail(answers), cap)
             ELSE [pc |-> "success",
                   ret |-> << [agent |-> name(agent), response |-> out.content,
                               execution_trace |-> grown] >>]

\* C11: however the steps of two calls of run interleave, each call starts
\* from iteration count 0 and an empty trace, its trace holds exactly the
\* entries of its own process invocations, and it ends and returns as it
\* would alone with the answers its own invocations received.
C11_RunIsolation ==
    \A r \in Runs :
        /\ (pc[r] = "loop" /\ invocations[r] = <<>>) =>
              (iterations[r] = 0 /\ execution_trace[r] = <<>>)
        /\ pc[r] # "call" => iterations[r] = Len(invocations[r])
        /\ Len(execution_trace[r]) = Len(Returned(r))
        /\ \A i \in 1..Len(execution_trace[r]) :
              execution_trace[r][i] = [agent |-> name(Returned(r)[i].agent),
                                       input |-> Returned(r)[i].input,
                                       output |-> Returned(r)[i].output]
        /\ pc[r] \in {"loop"} \cup Ended =>
              LET alone == C11_Alone(starting_agent[r], input[r], 0, <<>>,
                                     invocations[r], max_iterations[r])
              IN  /\ pc[r] \in Ended => alone.pc = pc[r]
                  /\ pc[r] \in Ended => alone.ret = ret[r]
                  /\ pc[r] = "loop" => alone.pc \in {"loop", "exhausted"}

\* C11 witness: two calls started on the same agent with different inputs
\* have both returned two-entry traces
C11_Witness ==
    /\ pc[1] = "exhausted" /\ pc[2] = "success"
    /\ Len(ret[1][1].execution_trace) = 2
    /\ Len(ret[2][1].execution_trace) = 2
    /\ ret[1][1].execution_trace[1].input # ret[2][1].execution_trace[1].input
    /\ starting_agent[1] = starting_agent[2]

\* C12: a handoff to an agent outside the current agent's declared handoffs
\* is followed like a declared one: the run does not fail on it, and the next
\* process invocation, if there is one, is on that agent with the same input.
C12_UnvalidatedHandoff ==
    \A r \in Runs : \A i \in 1..Len(invocations[r]) :
        LET v == invocations[r][i] IN
        (Turn(r, i) /\ v.output.handoff # None /\ v.output.handoff \notin handoffs(v.agent)) =>
            /\ i < Len(invocations[r]) =>
                  /\ invocations[r][i + 1].agent = v.output.handoff
                  /\ invocations[r][i + 1].input = v.input
            /\ i = Len(invocations[r]) =>
                  /\ pc[r] \in {"loop", "exhausted"}
                  /\ current_agent[r] = v.output.handoff
                  /\ current_input[r] = v.input
                  /\ pc[r] = "exhausted" => ret[r][1].agent = name(v.output.handoff)

\* C12 witness: demand_analyst, which declares no handoffs, handed off to
\* quality_assurance, and process was then invoked on quality_assurance
C12_Witness ==
    \E r \in Runs :
        /\ Len(invocations[r]) >= 2
        /\ invocations[r][1].agent = "demand_analyst"
        /\ invocations[r][1].output.handoff = "quality_assurance"
        /\ invocations[r][2].agent = "quality_assurance"

\* the turn carries a handoff or a non-empty tool_calls
C13_Carries(out) == out.handoff # None \/ out.tool_calls # <<>>

\* C13: a call with max_iterations = N >= 1 that has ended did so by
\* exhaustion exactly when it made N process invocations that all returned a
\* turn carrying a handoff or tool calls, and the exhaustion result then has
\* N trace entries; a final N-th turn makes it a success with that content.
C13_ExhaustionBoundary ==
    \A r \in Runs :
        (max_iterations[r] >= 1 /\ pc[r] \in Ended) =>
            LET N == max_iterations[r]
                allCarry == /\ Len(invocations[r]) = N
                            /\ \A i \in 1..N :
                                  /\ Turn(r, i)
                                  /\ C13_Carries(invocations[r][i].output)
            IN  /\ pc[r] = "exhausted" <=> allCarry
                /\ pc[r] = "exhausted" =>
                      /\ Len(ret[r][1].execution_trace) = N
                      /\ ret[r][1].response =
                            "Maximum number of agent iterations reached without resolution."
                /\ ( /\ Len(invocations[r]) = N
                     /\ Turn(r, N)
                     /\ ~C13_Carries(invocations[r][N].output) ) =>
                        /\ pc[r] = "success"
                        /\ ret[r][1].response = invocations[r][N].output.content

\* C13 witness: with max_iterations = 3 the third turn was final
C13_Witness ==
    \E r \in Runs :
        /\ max_iterations[r] = 3
        /\ pc[r] = "success"
        /\ Len(invocations[r]) = 3

\* C14: every step of a call appends exactly one entry at the end of its
\* trace and no transition changes the entries already there, so every
\* earlier trace is a prefix of every later one and of the returned trace.
C14_AppendOnly ==
    [][\A r \in Runs :
          LET old == execution_trace[r]
              new == execution_trace[r]'
          IN  /\ Len(new) >= Len(old)
              /\ SubSeq(new, 1, Len(old)) = old
              /\ (Len(invocations[r]') = Len(invocations[r]) + 1
                    /\ ~invocations[r]'[Len(invocations[r]')].raised) =>
                    Len(new) = Len(old) + 1
              /\ Len(invocations[r]') = Len(invocations[r]) => new = old
              /\ ret[r]' # <<>> => ret[r]'[1].execution_trace = new
      ]_vars

\* C14 witness: a trace has grown to three entries
C14_Witness ==
    \E r \in Runs : pc[r] = "loop" /\ Len(execution_trace[r]) = 3

\* the positions before j of the trace of r whose output has no handoff and
\* a non-empty tool_calls
C15_ToolRounds(r, j) ==
    { k \in 1..(j - 1) :
        /\ execution_trace[r][k].output.handoff = None
        /\ execution_trace[r][k].output.tool_calls # <<>> }

C15_Max(S) == CHOOSE k \in S : \A m \in S : m <= k

\* C15: the input of a trace entry is the initial input of the call when no
\* earlier entry is a tool round (no handoff, non-empty tool_calls), and
\* otherwise the summary synthesized from the latest earlier tool round; a
\* handoff after a tool round passes on the summary, not the initial input.
C15_InputProvenance ==
    \A r \in Runs : \A j \in 1..Len(execution_trace[r]) :
        execution_trace[r][j].input =
            IF C15_ToolRounds(r, j) = {}
            THEN input[r]
            ELSE C4_Summary(execution_trace[r][C15_Max(C15_ToolRounds(r, j))].output.tool_calls)

\* C15 witness: a tool round, then a handoff to another agent, then a turn of
\* that agent on the tool summary
C15_Witness ==
    \E r \in Runs :
        /\ Len(execution_trace[r]) = 3
        /\ execution_trace[r][1].output.handoff = None
        /\ execution_trace[r][1].output.tool_calls # <<>>
        /\ execution_trace[r][2].output.handoff # None
        /\ execution_trace[r][3].agent # execution_trace[r][2].agent
        /\ execution_trace[r][3].input # input[r]

\* C16: in a returned trace every entry but the last carries a handoff or
\* tool calls, each next entry is by the handoff agent when there is a
\* handoff and by the same agent otherwise, and the last entry of a success
\* is a final turn whose content is the response.
C16_TraceShape ==
    \A r \in Runs :
        ret[r] # <<>> =>
            LET t == ret[r][1].execution_trace IN
            /\ \A i \in 1..(Len(t) - 1) :
                  /\ t[i].output.handoff # None \/ t[i].output.tool_calls # <<>>
                  /\ t[i + 1].agent = IF t[i].output.handoff # None
                                      THEN name(t[i].output.handoff)
                                      ELSE t[i].agent
            /\ pc[r] = "success" =>
                  /\ t # <<>>
                  /\ t[Len(t)].output.handoff = None
                  /\ t[Len(t)].output.tool_calls = <<>>
                  /\ t[Len(t)].output.content = ret[r][1].response

\* C16 witness: a success after a handoff with tool calls and a tool round
C16_Witness ==
    \E r \in Runs :
        /\ pc[r] = "success"
        /\ Len(ret[r][1].execution_trace) = 3
        /\ ret[r][1].execution_trace[1].output.handoff \in Agents \ {starting_agent[r]}
        /\ ret[r][1].execution_trace[1].output.tool_calls # <<>>
        /\ ret[r][1].execution_trace[2].output.handoff = None

\* the number of handoffs a call has followed
C17_Handoffs(r) ==
    Cardinality({ i \in 1..Len(invocations[r]) :
                    Turn(r, i) /\ invocations[r][i].output.handoff # None })

\* C17: over the waterfall wiring, with a collaborator that hands off only to
\* declared agents, the call made by dev (demand_analyst, 5 iterations) never
\* leaves demand_analyst: every invocation, every trace entry and the
\* RunResult name it; and a call from any starting agent follows at most 3
\* handoffs.
C17_WaterfallPipeline ==
    \A r \in Runs :
        /\ C17_Handoffs(r) <= 3
        /\ (starting_agent[r] = "demand_analyst" /\ max_iterations[r] = 5) =>
              /\ pc[r] # "call" => current_agent[r] = "demand_analyst"
              /\ \A i \in 1..Len(invocations[r]) :
                    invocations[r][i].agent = "demand_analyst"
              /\ \A i \in 1..Len(execution_trace[r]) :
                    execution_trace[r][i].agent = "demand_analyst"
              /\ ret[r] # <<>> =>
                    /\ ret[r][1].agent = "demand_analyst"
                    /\ \A i \in 1..Len(ret[r][1].execution_trace) :
                          ret[r][1].execution_trace[i].agent = "demand_analyst"

\* C17 witness: the call of dev used all 5 iterations on demand_analyst, and
\* a call from quality_assurance went down the whole chain in 3 handoffs
C17_Witness ==
    /\ starting_agent[1] = "demand_analyst"
    /\ pc[1] = "exhausted"
    /\ Len(ret[1][1].execution_trace) = 5
    /\ starting_agent[2] = "quality_assurance"
    /\ pc[2] \in {"success", "exhausted"}
    /\ C17_Handoffs(2) = 3
    /\ ret[2][1].agent = "demand_analyst"

====
